---- MODULE Spec2Model ----
(***************************************************************************)
(* A model of DTransformer/data.py: the line-grouped record file (Lines)   *)
(* the batch assembler (_transform_batch, Batch, Transform) and the        *)
(* prefetching, resumable Iterator with its bounded queue.                 *)
(*                                                                         *)
(* Encodings.  An optional integer (a slice bound that may be None) is a   *)
(* sequence of length 0 or 1.  batch_size=None is NoBatch.  A physical     *)
(* line is [no |-> its 1-based line number, eol |-> whether the string     *)
(* still carries its terminator]; the empty string is EmptyLine.           *)
(***************************************************************************)
EXTENDS Integers, Sequences, FiniteSets, TLC

\* ---------------------------------------------------------------- bounds
MaxLines == 4
MaxSkip == 2
MaxGroup == 2
MaxArg == 5
MaxLen == 3
MaxBatch == 2
MaxLabels == 1
MaxBad == 2
MaxRaises == 2
MaxRecs == 2
MaxSeq == 3
MaxWin == 2

\* ------------------------------------------------------ program constants
QueueMax == 8
NoBatch == 0
NumFields == 2

VARIABLES
  \* Lines
  file,        \* the file on disk: [phys |-> physical lines, lastEol |-> last line terminated]
  win32,       \* sys.platform == "win32"
  lines,       \* the Lines object: [length, skip, group, preserve_newline]
  call,        \* the last Lines.__getitem__ call: [op, item, start, stop]
  ret,         \* what that call returned or raised: [kind, recs]
  \* Transform and Batch
  recs,        \* the records Transform reads: each a marker line, then one line per field
  seq_len,     \* self.seq_len
  batch,       \* Batch.data: one padded matrix per field, <<>> before assembly
  asked,       \* the fields of the last Batch.get call
  wins,        \* what that call returned: per field asked, its windows
  \* Iterator: the constructor's arguments and the object's fields
  length,      \* self.length = len(data)
  label,       \* the label sources, each by its length
  batch_size,  \* self.batch_size, NoBatch for None
  prefetch,    \* self.prefetch
  shuffle,     \* the shuffle argument
  full_shuffle,\* the full_shuffle argument
  index,       \* self.index
  full_index,  \* self.full_index, <<>> for None
  thread,      \* self.thread: "none" or "started"
  pos,         \* self.pos
  queue,       \* self.queue, a FIFO of at most QueueMax entries
  ctor,        \* "new" before __init__, then "ok" or "failed" (AssertionError)
  \* the data source: which element fails to be fetched, and how
  badElem,     \* the element whose fetch fails, -1 for none
  transient,   \* whether that fetch fails once only
  failedOnce,  \* whether it has failed already
  \* control: the caller inside __next__, the worker inside produce
  cpc,         \* "idle", "produce" (line 212), "get" (line 213)
  ppc,         \* "none", "start" (line 221), "loop", "put", "done"
  pbranch,     \* the loop produce is in: "direct", "full" or "batch"
  pi,          \* the loop variable i
  pstop,       \* the end of the loop's range
  pend,        \* the entry the worker is about to put
  \* history of the run since the last time position was set
  startPos,    \* the position the run started at
  delivered,   \* the items __next__ returned, in order
  outcome,     \* how the last finished __next__ ended
  raises,      \* how many __next__ calls raised a production failure
  fetched,     \* the positions whose production step was attempted, in order
  pushes       \* the number of queue.put calls that returned

linesVars == <<file, win32, lines, call, ret>>
batchVars == <<recs, seq_len, batch, asked, wins>>
argVars == <<length, label, batch_size, prefetch, shuffle, full_shuffle, badElem, transient>>
objVars == <<index, full_index, thread, pos, queue, ctor>>
workerVars == <<ppc, pbranch, pi, pstop, pend>>
histVars == <<startPos, delivered, outcome, raises, fetched, pushes>>
iterVars == <<argVars, objVars, failedOnce, cpc, workerVars, histVars>>
vars == <<linesVars, batchVars, iterVars>>

Min(a, b) == IF a < b THEN a ELSE b
Max(a, b) == IF a > b THEN a ELSE b

\* ------------------------------------------------------------------ _clip
_clip(v, low, high) ==
  LET v1 == IF v < low THEN low ELSE v
  IN  IF v1 > high THEN high ELSE v1

\* range(lo, hi) as a sequence
Range(lo, hi) == [k \in 1..Max(hi - lo, 0) |-> lo + k - 1]

\* ------------------------------------------------------------------ Lines
EmptyLine == [no |-> 0, eol |-> FALSE]

\* `wc -l` counts terminators; iterating the open file counts lines.
WcLines(f) == IF f.phys > 0 /\ ~f.lastEol THEN f.phys - 1 ELSE f.phys
ScanLines(f) == f.phys

Linecount(f, w) == IF w THEN ScanLines(f) ELSE WcLines(f)

LinesInit(f, w, skip, group, preserve_newline) ==
  [length |-> (Linecount(f, w) - skip) \div group,
   skip |-> skip,
   group |-> group,
   preserve_newline |-> preserve_newline]

\* linecache.getline: the line with its terminator (linecache terminates the
\* last line itself), or the empty string for a line number outside the file.
getline(f, lineno) ==
  IF 1 <= lineno /\ lineno <= f.phys THEN [no |-> lineno, eol |-> TRUE] ELSE EmptyLine

\* line.strip("\r\n")
strip(l) == [l EXCEPT !.eol = FALSE]

\* The lines read for record number i (lines 116-126 and 140-150): one line at
\* i + d when group is 1, else the group lines from d + i*group.
ReadRecord(f, ln, i) ==
  LET d == ln.skip + 1
      raw == IF ln.group = 1
             THEN <<getline(f, i + d)>>
             ELSE [k \in 1..ln.group |-> getline(f, d + i * ln.group + (k - 1))]
  IN  IF ln.preserve_newline THEN raw ELSE [k \in 1..Len(raw) |-> strip(raw[k])]

\* len(self): Python refuses a negative __len__.
LenRaises(ln) == ln.length < 0

\* The scalar guard of line 115.
IntGuard(ln, item) == item < ln.length

\* Lines.__getitem__(item) for an int.
GetInt(f, ln, item) ==
  IF LenRaises(ln) THEN [kind |-> "ValueError", recs |-> <<>>]
  ELSE IF IntGuard(ln, item) THEN [kind |-> "record", recs |-> <<ReadRecord(f, ln, item)>>]
  ELSE [kind |-> "IndexError", recs |-> <<>>]

\* Lines 130-133: the normalised lower bound.
SliceLow(n, start) ==
  LET low0 == IF start = <<>> THEN 0 ELSE start[1]
      low1 == _clip(low0, -n, n - 1)
  IN  IF low1 < 0 THEN low1 + n ELSE low1

\* Mutant: the upper bound is not clamped to the record count.
SliceHigh_NoClip(n, stop) ==
  LET high0 == IF stop = <<>> THEN n ELSE stop[1]
  IN  IF high0 < 0 THEN high0 + n ELSE high0

\* Lines 134-137: the normalised upper bound.
SliceHigh(n, stop) ==
  LET high0 == IF stop = <<>> THEN n ELSE stop[1]
      high1 == _clip(high0, -n, n)
  IN  IF high1 < 0 THEN high1 + n ELSE high1

\* The record numbers a slice visits: range(low, high) of line 139.
SliceIndices(n, start, stop) == Range(SliceLow(n, start), SliceHigh(n, stop))

\* Lines.__getitem__(item) for a slice.
GetSlice(f, ln, start, stop) ==
  IF LenRaises(ln) THEN [kind |-> "ValueError", recs |-> <<>>]
  ELSE LET ix == SliceIndices(ln.length, start, stop)
       IN  [kind |-> "list", recs |-> [k \in 1..Len(ix) |-> ReadRecord(f, ln, ix[k])]]

Files == [phys : 0..MaxLines, lastEol : BOOLEAN]
Args == (0 - MaxArg)..MaxArg
OptArgs == {<<>>} \cup {<<v>> : v \in Args}
NoCall == [op |-> "none", item |-> 0, start |-> <<>>, stop |-> <<>>]
NoRet == [kind |-> "none", recs |-> <<>>]

LinesOpened ==
  /\ file \in Files
  /\ win32 \in BOOLEAN
  /\ \E skip \in 0..MaxSkip, group \in 1..MaxGroup, pn \in BOOLEAN :
       lines = LinesInit(file, win32, skip, group, pn)
  /\ call = NoCall
  /\ ret = NoRet

\* A call leaves the object as it was, so the calls made after the first reach no
\* state the first cannot: each behaviour makes one call.
LinesGetInt ==
  /\ call = NoCall
  /\ \E item \in Args :
       /\ call' = [op |-> "int", item |-> item, start |-> <<>>, stop |-> <<>>]
       /\ ret' = GetInt(file, lines, item)
  /\ UNCHANGED <<file, win32, lines>>

LinesGetSlice ==
  /\ call = NoCall
  /\ \E start \in OptArgs, stop \in OptArgs :
       /\ call' = [op |-> "slice", item |-> 0, start |-> start, stop |-> stop]
       /\ ret' = GetSlice(file, lines, start, stop)
  /\ UNCHANGED <<file, win32, lines>>

\* --------------------------------------------------------------- Iterator
\* Mutant: the batch count rounds down.
IteratorLen_Floor(n, bs) == IF bs = NoBatch THEN n ELSE n \div bs

\* Iterator.__len__
IteratorLen(n, bs) == IF bs = NoBatch THEN n ELSE (n + bs - 1) \div bs

\* Mutant: a label source longer than the data passes.
LabelsMatch_AtLeast(n, lab) == \A k \in 1..Len(lab) : n <= lab[k]

\* The assertion of lines 180-182.
LabelsMatch(n, lab) == \A k \in 1..Len(lab) : n = lab[k]

Identity(m) == [k \in 1..m |-> k - 1]
Reversed(m) == [k \in 1..m |-> m - k]
Rotated(m) == [k \in 1..m |-> k % m]
Swapped(m) == [k \in 1..m |-> IF k = 1 /\ m > 1 THEN 1 ELSE IF k = 2 THEN 0 ELSE k - 1]

\* What random.shuffle may leave of list(range(m)): four of the permutations.
Shuffles(m) == {Identity(m), Reversed(m), Rotated(m), Swapped(m)}

\* seq[lo:hi] of a Python list, for bounds >= 0.
PySlice(seq, lo, hi) == SubSeq(seq, lo + 1, Min(hi, Len(seq)))

\* Which loop of produce runs once batch_size is set: line 242.
BatchBranch == IF full_index # <<>> THEN "full" ELSE "batch"

\* Mutant: the full-shuffle chunk starts at i instead of i*bs.
StepElems_FullStride(branch, i) ==
  CASE branch = "direct" -> <<i>>
    [] branch = "full" -> PySlice(full_index, i, i + batch_size)
    [] branch = "batch" ->
         SliceIndices(length, <<index[i + 1] * batch_size>>, <<(index[i + 1] + 1) * batch_size>>)

\* Mutant: the batch loop slices at i, not at self.index[i].
StepElems_IgnoreIndex(branch, i) ==
  CASE branch = "direct" -> <<i>>
    [] branch = "full" -> PySlice(full_index, i * batch_size, (i + 1) * batch_size)
    [] branch = "batch" -> SliceIndices(length, <<i * batch_size>>, <<(i + 1) * batch_size>>)

\* The source elements the production step of position i reads, by loop:
\* data[i] (225), [data[j] for j in full_index[i*bs:(i+1)*bs]] (246-248), or
\* data[index*bs:(index+1)*bs] (277-284), the slice as Lines.__getitem__ takes it.
StepElems(branch, i) ==
  CASE branch = "direct" -> <<i>>
    [] branch = "full" -> PySlice(full_index, i * batch_size, (i + 1) * batch_size)
    [] branch = "batch" ->
         SliceIndices(length, <<index[i + 1] * batch_size>>, <<(index[i + 1] + 1) * batch_size>>)

\* Whether fetching element e fails now.
ElemFails(e) == e = badElem /\ (~transient \/ ~failedOnce)

\* The arithmetic of lines 246 and 282-284 on batch_size=None is a TypeError.
NoneArithmetic(branch) == branch # "direct" /\ batch_size = NoBatch

\* One production step for position i: the entry it would put.
Step(branch, i) ==
  IF NoneArithmetic(branch)
  THEN [pos |-> i, elems |-> <<>>, labels |-> 0, exc |-> "TypeError"]
  ELSE LET el == StepElems(branch, i)
       IN  IF \E k \in 1..Len(el) : ElemFails(el[k])
           THEN [pos |-> i, elems |-> <<>>, labels |-> 0, exc |-> "SourceError"]
           ELSE [pos |-> i, elems |-> el, labels |-> Len(label), exc |-> "none"]

StepTouchesBad(branch, i) ==
  ~NoneArithmetic(branch) /\ \E k \in 1..Len(StepElems(branch, i)) : StepElems(branch, i)[k] = badElem

NoEntry == [pos |-> 0 - 1, elems |-> <<>>, labels |-> 0, exc |-> "none"]

Lengths == 0..MaxLen
BatchSizes == {NoBatch} \cup (1..MaxBatch)
LabelLens(n) == {n, n + 1} \cup (IF n > 0 THEN {n - 1} ELSE {})
Labels(n) == UNION {[1..m -> LabelLens(n)] : m \in 0..MaxLabels}

BadElems(n) == (0 - 1)..(Min(n, MaxBad) - 1)

\* The arguments of Iterator(...) and the behaviour of the data source: every
\* combination over a short source,
ShortArgs ==
  /\ length \in Lengths
  /\ label \in Labels(length)
  /\ batch_size \in BatchSizes
  /\ prefetch \in BOOLEAN
  /\ shuffle \in BOOLEAN
  /\ full_shuffle \in BOOLEAN
  /\ badElem \in BadElems(length)
  /\ transient \in (IF badElem < 0 THEN {FALSE} ELSE BOOLEAN)

\* and a source with more positions than the queue has slots.
LongArgs ==
  /\ length = QueueMax + 1
  /\ label = <<>>
  /\ batch_size \in {NoBatch, 1}
  /\ prefetch \in BOOLEAN
  /\ shuffle \in BOOLEAN
  /\ full_shuffle = FALSE
  /\ badElem \in BadElems(length)
  /\ transient \in (IF badElem < 0 THEN {FALSE} ELSE BOOLEAN)

IterArgs == ShortArgs \/ LongArgs

IterFresh ==
  /\ index = <<>> /\ full_index = <<>> /\ thread = "none" /\ pos = 0 /\ queue = <<>>
  /\ ctor = "new"
  /\ failedOnce = FALSE
  /\ cpc = "idle"
  /\ ppc = "none" /\ pbranch = "direct" /\ pi = 0 /\ pstop = 0 /\ pend = NoEntry
  /\ startPos = 0 /\ delivered = <<>> /\ outcome = "none"
  /\ raises = 0 /\ fetched = <<>> /\ pushes = 0

\* Iterator.__init__: the assertion, then the permutations.
Construct ==
  /\ ctor = "new"
  /\ IF LabelsMatch(length, label)
     THEN /\ ctor' = "ok"
          /\ \E ip \in (IF shuffle THEN Shuffles(IteratorLen(length, batch_size))
                                   ELSE {Identity(IteratorLen(length, batch_size))}) :
               index' = ip
          /\ \E fp \in (IF full_shuffle THEN Shuffles(length) ELSE {<<>>}) :
               full_index' = fp
     ELSE /\ ctor' = "failed"
          /\ UNCHANGED <<index, full_index>>
  /\ UNCHANGED <<thread, pos, queue>>
  /\ UNCHANGED <<linesVars, batchVars, argVars, failedOnce, cpc, workerVars, histVars>>

\* it.pos = p from outside, while no worker is live and no __next__ is running.
SetPos ==
  /\ ctor = "ok" /\ cpc = "idle" /\ thread = "none"
  /\ \E p \in 0..Len(index) :
       /\ pos' = p
       /\ startPos' = p
  /\ delivered' = <<>> /\ outcome' = "none" /\ raises' = 0
  /\ fetched' = <<>> /\ pushes' = 0
  /\ UNCHANGED <<index, full_index, thread, queue, ctor>>
  /\ UNCHANGED <<linesVars, batchVars, argVars, failedOnce, cpc, workerVars>>

\* Mutant: the worker is started whether or not prefetch is on.
NextCall_AlwaysThread ==
  /\ ctor = "ok" /\ cpc = "idle"
  /\ raises < MaxRaises
  /\ IF thread = "none"
     THEN thread' = "started" /\ ppc' = "start"
     ELSE UNCHANGED <<thread, ppc>>
  /\ IF pos >= Len(index)
     THEN outcome' = "StopIteration" /\ cpc' = "idle"
     ELSE outcome' = outcome /\ cpc' = (IF prefetch THEN "get" ELSE "produce")
  /\ UNCHANGED <<index, full_index, pos, queue, ctor>>
  /\ UNCHANGED <<linesVars, batchVars, argVars, failedOnce, pbranch, pi, pstop, pend>>
  /\ UNCHANGED <<startPos, delivered, raises, fetched, pushes>>

\* __next__, lines 204-212: start the worker, test for the end, go on to line
\* 212 (no prefetch) or to the queue.get of line 213.
NextCall ==
  /\ ctor = "ok" /\ cpc = "idle"
  /\ raises < MaxRaises          \* the caller gives up after MaxRaises failures
  /\ IF thread = "none" /\ prefetch
     THEN thread' = "started" /\ ppc' = "start"
     ELSE UNCHANGED <<thread, ppc>>
  /\ IF pos >= Len(index)
     THEN outcome' = "StopIteration" /\ cpc' = "idle"
     ELSE outcome' = outcome /\ cpc' = (IF prefetch THEN "get" ELSE "produce")
  /\ UNCHANGED <<index, full_index, pos, queue, ctor>>
  /\ UNCHANGED <<linesVars, batchVars, argVars, failedOnce, pbranch, pi, pstop, pend>>
  /\ UNCHANGED <<startPos, delivered, raises, fetched, pushes>>

\* self.produce(False), line 212: one step at self.pos, put and return, or the
\* step's exception raised straight through __next__ (lines 239-240 and its twins).
NextProduce ==
  /\ cpc = "produce"
  /\ LET br == IF batch_size = NoBatch THEN "direct" ELSE BatchBranch
         e == Step(br, pos)
     IN  /\ fetched' = Append(fetched, pos)
         /\ failedOnce' = (failedOnce \/ StepTouchesBad(br, pos))
         /\ IF e.exc = "none"
            THEN /\ queue' = Append(queue, e)
                 /\ pushes' = pushes + 1
                 /\ cpc' = "get"
                 /\ UNCHANGED <<outcome, raises>>
            ELSE /\ outcome' = "raise"
                 /\ raises' = raises + 1
                 /\ cpc' = "idle"
                 /\ UNCHANGED <<queue, pushes>>
  /\ UNCHANGED <<index, full_index, thread, pos, ctor>>
  /\ UNCHANGED <<linesVars, batchVars, argVars, workerVars, startPos, delivered>>

\* Mutant: the position advances on a raised failure too.
NextGet_AdvancesOnRaise ==
  /\ cpc = "get"
  /\ queue # <<>>
  /\ queue' = Tail(queue)
  /\ pos' = pos + 1
  /\ IF Head(queue).exc # "none"
     THEN /\ outcome' = "raise"
          /\ raises' = raises + 1
          /\ UNCHANGED delivered
     ELSE /\ delivered' = Append(delivered, Head(queue))
          /\ outcome' = "item"
          /\ UNCHANGED raises
  /\ cpc' = "idle"
  /\ UNCHANGED <<index, full_index, thread, ctor>>
  /\ UNCHANGED <<linesVars, batchVars, argVars, failedOnce, workerVars, startPos, fetched, pushes>>

\* item = self.queue.get() and lines 214-218; blocks while the queue is empty.
NextGet ==
  /\ cpc = "get"
  /\ queue # <<>>
  /\ queue' = Tail(queue)
  /\ IF Head(queue).exc # "none"
     THEN /\ outcome' = "raise"
          /\ raises' = raises + 1
          /\ UNCHANGED <<pos, delivered>>
     ELSE /\ pos' = pos + 1
          /\ delivered' = Append(delivered, Head(queue))
          /\ outcome' = "item"
          /\ UNCHANGED raises
  /\ cpc' = "idle"
  /\ UNCHANGED <<index, full_index, thread, ctor>>
  /\ UNCHANGED <<linesVars, batchVars, argVars, failedOnce, workerVars, startPos, fetched, pushes>>

\* Mutant: the worker's loop starts at 0, not at self.pos.
ProduceStart_FromZero ==
  /\ ppc = "start"
  /\ IF batch_size = NoBatch
     THEN pbranch' = "direct" /\ pstop' = length
     ELSE pbranch' = BatchBranch /\ pstop' = IteratorLen(length, batch_size)
  /\ pi' = 0
  /\ ppc' = "loop"
  /\ UNCHANGED pend
  /\ UNCHANGED <<linesVars, batchVars, argVars, objVars, failedOnce, cpc, histVars>>

\* The worker enters produce: line 221 picks the loop, range(self.pos, ...)
\* reads the position.
ProduceStart ==
  /\ ppc = "start"
  /\ IF batch_size = NoBatch
     THEN pbranch' = "direct" /\ pstop' = length
     ELSE pbranch' = BatchBranch /\ pstop' = IteratorLen(length, batch_size)
  /\ pi' = pos
  /\ ppc' = "loop"
  /\ UNCHANGED pend
  /\ UNCHANGED <<linesVars, batchVars, argVars, objVars, failedOnce, cpc, histVars>>

\* The loop body up to the put: fetch the step of position i, or catch its
\* exception (lines 235-237, 267-269, 301-303).
ProduceFetch ==
  /\ ppc = "loop"
  /\ pi < pstop
  /\ pend' = Step(pbranch, pi)
  /\ failedOnce' = (failedOnce \/ StepTouchesBad(pbranch, pi))
  /\ fetched' = Append(fetched, pi)
  /\ ppc' = "put"
  /\ UNCHANGED <<pbranch, pi, pstop>>
  /\ UNCHANGED <<linesVars, batchVars, argVars, objVars, cpc>>
  /\ UNCHANGED <<startPos, delivered, outcome, raises, pushes>>

\* Mutant: the worker does not return after putting an exception.
ProducePut_GoesOn ==
  /\ ppc = "put"
  /\ Len(queue) < QueueMax
  /\ queue' = Append(queue, pend)
  /\ pushes' = pushes + 1
  /\ ppc' = "loop" /\ pi' = pi + 1
  /\ pend' = NoEntry
  /\ UNCHANGED <<pbranch, pstop>>
  /\ UNCHANGED <<index, full_index, thread, pos, ctor>>
  /\ UNCHANGED <<linesVars, batchVars, argVars, failedOnce, cpc>>
  /\ UNCHANGED <<startPos, delivered, outcome, raises, fetched>>

\* Mutant: the queue has no maxsize, put never blocks.
ProducePut_Unbounded ==
  /\ ppc = "put"
  /\ queue' = Append(queue, pend)
  /\ pushes' = pushes + 1
  /\ IF pend.exc # "none"
     THEN ppc' = "done" /\ pi' = pi
     ELSE ppc' = "loop" /\ pi' = pi + 1
  /\ pend' = NoEntry
  /\ UNCHANGED <<pbranch, pstop>>
  /\ UNCHANGED <<index, full_index, thread, pos, ctor>>
  /\ UNCHANGED <<linesVars, batchVars, argVars, failedOnce, cpc>>
  /\ UNCHANGED <<startPos, delivered, outcome, raises, fetched>>

\* self.queue.put(...): blocks while the queue holds QueueMax entries.  After an
\* exception the worker returns; after an item the loop goes on.
ProducePut ==
  /\ ppc = "put"
  /\ Len(queue) < QueueMax
  /\ queue' = Append(queue, pend)
  /\ pushes' = pushes + 1
  /\ IF pend.exc # "none"
     THEN ppc' = "done" /\ pi' = pi
     ELSE ppc' = "loop" /\ pi' = pi + 1
  /\ pend' = NoEntry
  /\ UNCHANGED <<pbranch, pstop>>
  /\ UNCHANGED <<index, full_index, thread, pos, ctor>>
  /\ UNCHANGED <<linesVars, batchVars, argVars, failedOnce, cpc>>
  /\ UNCHANGED <<startPos, delivered, outcome, raises, fetched>>

\* The loop's range is used up.  The direct loop (224) falls through to line
\* 242, where a second loop starts from the position as it is now; the batch
\* loops end produce.
ProduceLoopEnd ==
  /\ ppc = "loop"
  /\ pi >= pstop
  /\ IF pbranch = "direct"
     THEN /\ pbranch' = BatchBranch
          /\ pi' = pos
          /\ pstop' = IteratorLen(length, batch_size)
          /\ ppc' = "loop"
     ELSE /\ ppc' = "done"
          /\ UNCHANGED <<pbranch, pi, pstop>>
  /\ UNCHANGED pend
  /\ UNCHANGED <<linesVars, batchVars, argVars, objVars, failedOnce, cpc, histVars>>

\* ------------------------------------------------------ Transform and Batch
\* The fields a Batch is built with: KTData's default inputs.
Fields == <<"q", "s">>

\* Batch.stoi
stoi(f) == CHOOSE i \in 1..Len(Fields) : Fields[i] = f

\* Mutant: the padding goes in front of the sequence.
PadRow_Left(seq, w) ==
  [c \in 1..w |-> IF c <= w - Len(seq) THEN 0 - 1 ELSE seq[c - (w - Len(seq))]]

\* One row of pad_sequence(..., padding_value=-1): the sequence, then the
\* padding value up to the width.
PadRow(seq, w) == [c \in 1..w |-> IF c <= Len(seq) THEN seq[c] ELSE 0 - 1]

RECURSIVE MaxLength(_)
\* The longest of some sequences.
MaxLength(seqs) ==
  IF seqs = <<>> THEN 0 ELSE Max(Len(Head(seqs)), MaxLength(Tail(seqs)))

\* pad_sequence(seqs, batch_first=True, padding_value=-1): one row per sequence.
PadSequence(seqs) == [r \in 1..Len(seqs) |-> PadRow(seqs[r], MaxLength(seqs))]

\* list(zip(*items)): per field, the sequences of the records.
Zip(items) ==
  IF items = <<>> THEN <<>>
  ELSE [f \in 1..Len(items[1]) |-> [r \in 1..Len(items) |-> items[r][f]]]

\* _transform_batch: each field padded on its own.
_transform_batch(items) == [f \in 1..Len(Zip(items)) |-> PadSequence(Zip(items)[f])]

\* Transform.__getitem__ for a slice, lines 83-87: the marker line of each
\* record dropped, the rest handed to _transform_batch.
TransformItems(records) == [r \in 1..Len(records) |-> Tail(records[r])]

\* m.size(1)
Width(m) == IF m = <<>> THEN 0 ELSE Len(m[1])

\* m[:, lo:hi]
Columns(m, lo, hi) == [r \in 1..Len(m) |-> PySlice(m[r], lo, hi)]

\* The number of windows Batch.get cuts, line 54 and 58: from the first matrix.
WindowCount(data, sl) == Width(data[1]) \div sl

\* Batch.get(*fields)
BatchGet(data, sl, fs) ==
  [k \in 1..Len(fs) |->
     [i \in 1..WindowCount(data, sl) |->
        Columns(data[stoi(fs[k])], (i - 1) * sl, i * sl)]]

\* The value at column c of field f of record r: every cell its own.
Cell(r, f, c) == 100 * f + 10 * r + c

\* A record whose field lines have the given lengths, after its marker line.
Record(r, lens) ==
  <<<<lens[1]>>>> \o [f \in 1..Len(lens) |-> [c \in 1..lens[f] |-> Cell(r, f, c)]]

FieldAsks == {<<"q">>, <<"s">>, <<"q", "s">>, <<"s", "q">>}

BatchInputs ==
  /\ \E n \in 1..MaxRecs :
       \E lens \in [1..n -> [1..NumFields -> 1..MaxSeq]] :
         recs = [r \in 1..n |-> Record(r, lens[r])]
  /\ seq_len \in 1..MaxWin
  /\ batch = <<>> /\ asked = <<>> /\ wins = <<>>

\* Transform.__getitem__(slice): the Batch of the records.
Assemble ==
  /\ batch = <<>>
  /\ batch' = _transform_batch(TransformItems(recs))
  /\ UNCHANGED <<recs, seq_len, asked, wins>>

\* Batch.get(*fields); a Batch is not changed by it, so each behaviour asks once.
Get ==
  /\ batch # <<>> /\ asked = <<>>
  /\ \E fs \in FieldAsks :
       /\ asked' = fs
       /\ wins' = BatchGet(batch, seq_len, fs)
  /\ UNCHANGED <<recs, seq_len, batch>>

\* ------------------------------------------------------------ specifications
BatchUnused ==
  /\ recs = <<>> /\ seq_len = 1 /\ batch = <<>> /\ asked = <<>> /\ wins = <<>>

LinesUnused ==
  /\ file = [phys |-> 0, lastEol |-> TRUE]
  /\ win32 = FALSE
  /\ lines = LinesInit(file, win32, 0, 1, FALSE)
  /\ call = NoCall
  /\ ret = NoRet

IterUnused ==
  /\ length = 0 /\ label = <<>> /\ batch_size = NoBatch /\ prefetch = FALSE
  /\ shuffle = FALSE /\ full_shuffle = FALSE /\ badElem = 0 - 1 /\ transient = FALSE
  /\ IterFresh

\* The iterator, over every source and every argument within the bounds.
Init == LinesUnused /\ BatchUnused /\ IterArgs /\ IterFresh
Next ==
  \/ Construct
  \/ SetPos
  \/ NextCall
  \/ NextProduce
  \/ NextGet
  \/ ProduceStart
  \/ ProduceFetch
  \/ ProducePut
  \/ ProduceLoopEnd
Spec == Init /\ [][Next]_vars

\* A run whose position is never set from outside, in which whatever can run
\* does run in the end: the worker thread is scheduled and the caller keeps
\* calling __next__.
WorkerNext == ProduceStart \/ ProduceFetch \/ ProducePut \/ ProduceLoopEnd
NextRun ==
  \/ Construct
  \/ NextCall
  \/ NextProduce
  \/ NextGet
  \/ ProduceStart
  \/ ProduceFetch
  \/ ProducePut
  \/ ProduceLoopEnd
LiveSpec == Init /\ [][NextRun]_vars /\ WF_vars(NextRun)

\* The record file, over every file and every call within the bounds.
InitLines == LinesOpened /\ BatchUnused /\ IterUnused
NextLines ==
  \/ LinesGetInt /\ UNCHANGED <<batchVars, iterVars>>
  \/ LinesGetSlice /\ UNCHANGED <<batchVars, iterVars>>
SpecLines == InitLines /\ [][NextLines]_vars

\* The assembler, over every list of records and every get within the bounds.
InitBatch == LinesUnused /\ BatchInputs /\ IterUnused
NextBatch ==
  \/ Assemble /\ UNCHANGED <<linesVars, iterVars>>
  \/ Get /\ UNCHANGED <<linesVars, iterVars>>
SpecBatch == InitBatch /\ [][NextBatch]_vars

\* ------------------------------------------------------------------ claims
RECURSIVE Flatten(_)
\* The elements of a sequence of delivered items, concatenated.
Flatten(items) == IF items = <<>> THEN <<>> ELSE Head(items).elems \o Flatten(Tail(items))

NoDup(s) == \A a, b \in 1..Len(s) : s[a] = s[b] => a = b
Elems(s) == {s[k] : k \in 1..Len(s)}

\* ceil(n / bs), as the least count of bs-sized batches that covers n elements.
Batches(n, bs) == CHOOSE m \in 0..n : m * bs >= n /\ (m = 0 \/ (m - 1) * bs < n)
LogicalLen == IF batch_size = NoBatch THEN length ELSE Batches(length, batch_size)

\* A run that started at position 0 on a source none of whose fetches fails.
RunFromZero == ctor = "ok" /\ startPos = 0 /\ badElem = 0 - 1
Finished == outcome = "StopIteration"

\* The contiguous source slice of batch number j (element j without batches).
SourceSlice(j) ==
  IF batch_size = NoBatch THEN <<j>>
  ELSE Range(j * batch_size, Min((j + 1) * batch_size, length))

\* C1: with shuffle and full_shuffle off, a failure-free run from position 0
\* delivers as its k-th item exactly source element k (no batch size) or the
\* slice [k*bs, min((k+1)*bs, n)), in increasing position order, so that what
\* was delivered is always a prefix of the source and, at end-of-sequence, the
\* whole source; with and without prefetch.
C1_NoShuffleSourceOrder ==
  (RunFromZero /\ ~shuffle /\ ~full_shuffle) =>
    /\ \A k \in 1..Len(delivered) :
         /\ delivered[k].exc = "none"
         /\ delivered[k].pos = k - 1
         /\ delivered[k].elems = SourceSlice(k - 1)
    /\ Flatten(delivered) = Range(0, Len(Flatten(delivered)))
    /\ raises = 0
    /\ Finished => Flatten(delivered) = Range(0, length)

C1_Witness ==
  /\ RunFromZero /\ ~shuffle /\ ~full_shuffle
  /\ prefetch /\ batch_size = 2 /\ length = 3
  /\ Finished /\ Len(delivered) = 2

\* C2: with full_shuffle on and a batch size, a failure-free run from position
\* 0 delivers ceil(n/bs) batches that together hold every element index of
\* [0, n) exactly once; every batch but the last has bs elements and the last
\* has n - bs*(ceil(n/bs) - 1).
C2_FullShuffleCoversOnce ==
  (RunFromZero /\ full_shuffle /\ batch_size # NoBatch) =>
    LET nb == Batches(length, batch_size)
        all == Flatten(delivered)
    IN  /\ Len(delivered) <= nb
        /\ NoDup(all)
        /\ Elems(all) \subseteq 0..(length - 1)
        /\ \A k \in 1..Len(delivered) :
             Len(delivered[k].elems) =
               IF k < nb THEN batch_size ELSE length - batch_size * (nb - 1)
        /\ Finished => (Len(delivered) = nb /\ Elems(all) = 0..(length - 1))

C2_Witness ==
  /\ RunFromZero /\ full_shuffle /\ batch_size = 2 /\ length = 3
  /\ full_index = <<2, 1, 0>>
  /\ Finished /\ Len(delivered) = 2

\* C3: with shuffle on, full_shuffle off and a batch size, every delivered
\* batch is the contiguous slice [j*bs, min((j+1)*bs, n)) of a batch index j,
\* the j of the k-th delivered batch is the k-th entry of the permutation drawn
\* at construction, and a failure-free run from position 0 delivers every batch
\* index of [0, ceil(n/bs)) exactly once.
C3_BatchShuffleContiguous ==
  (RunFromZero /\ shuffle /\ ~full_shuffle /\ batch_size # NoBatch) =>
    LET nb == Batches(length, batch_size)
    IN  /\ Len(delivered) <= nb
        /\ \A k \in 1..Len(delivered) : delivered[k].elems = SourceSlice(index[k])
        /\ NoDup(SubSeq(index, 1, Len(delivered)))
        /\ Finished =>
             (Len(delivered) = nb /\ {index[k] : k \in 1..Len(delivered)} = 0..(nb - 1))

C3_Witness ==
  /\ RunFromZero /\ shuffle /\ ~full_shuffle /\ batch_size = 2 /\ length = 3
  /\ index = <<1, 0>>
  /\ Finished /\ delivered[1].elems = <<2>> /\ delivered[2].elems = <<0, 1>>

C6_LengthMismatchFailsFast ==
  ctor # "new" =>
    IF \E k \in 1..Len(label) : label[k] # length
    THEN /\ ctor = "failed"
         /\ thread = "none" /\ ppc = "none" /\ cpc = "idle"
         /\ queue = <<>> /\ pushes = 0 /\ fetched = <<>> /\ delivered = <<>>
         /\ ~ENABLED Next
    ELSE ctor = "ok"

C6_Witness == ctor = "failed" /\ Len(label) = 1 /\ label[1] = length + 1

\* The state part of C7: the lengths agree, a finished run delivered exactly
\* the logical length, and no call waits once the position has reached it.
C7_Lengths ==
  ctor = "ok" =>
    /\ Len(index) = LogicalLen
    /\ IteratorLen(length, batch_size) = LogicalLen
    /\ (RunFromZero /\ Finished) => (Len(delivered) = LogicalLen /\ pos = LogicalLen)
    /\ RunFromZero => Len(delivered) <= LogicalLen
    /\ pos >= LogicalLen => cpc = "idle"

\* C7: the logical length is n without a batch size and ceil(n/bs) with one; a
\* failure-free run from position 0 delivers, in the end, exactly that many
\* items and then signals end-of-sequence, and from then on every call to next
\* signals end-of-sequence without waiting on the queue.
C7_EndOfSequence ==
  /\ []C7_Lengths
  /\ RunFromZero ~> Finished
  /\ [][Finished => Finished']_vars

C7_Witness ==
  /\ RunFromZero /\ Finished /\ ~prefetch /\ shuffle /\ batch_size = 2 /\ length = 3
  /\ Len(delivered) = 2 /\ pos = 2

\* C8: in prefetch mode the queue never holds more than 8 entries; a worker at
\* its put with 8 entries unread can take no step at all (no put, no further
\* fetch) until the caller takes one entry, and can put as soon as there is room.
C8_Backpressure ==
  (ctor = "ok" /\ prefetch) =>
    /\ Len(queue) <= 8
    /\ (ppc = "put" /\ Len(queue) = 8) => ~ENABLED WorkerNext
    /\ (ppc = "put" /\ Len(queue) < 8) => ENABLED ProducePut
    /\ Len(fetched) <= (pos - startPos) + raises + 8 + 1

C8_Witness ==
  /\ ctor = "ok" /\ prefetch /\ length = 9
  /\ Len(queue) = 8 /\ ppc = "put" /\ pend.exc = "none" /\ pend.pos = 8 /\ pos = 0

\* Array-slice normalisation of one bound over n records: absent takes the
\* default, negative counts from the end, and the result is clamped to [0, n].
ArrayBound(b, n, default) ==
  IF b = <<>> THEN default
  ELSE IF b[1] < 0 THEN Max(b[1] + n, 0) ELSE Min(b[1], n)

\* The group physical lines of record i: lines skip + i*group + 1 onwards,
\* terminators stripped unless preserve_newline.
RecordLines(i) ==
  [k \in 1..lines.group |->
     [no |-> lines.skip + i * lines.group + k, eol |-> lines.preserve_newline]]

\* C9: on a file of count >= 0 records, get(i) raises IndexError for every i
\* outside [0, count), negative i included, and never returns a record for such
\* an i; for i in [0, count) it returns the group physical lines that start at
\* 1-based line skip + i*group + 1.
C9_GetOutsideRaises ==
  (call.op = "int" /\ lines.length >= 0) =>
    IF call.item \in 0..(lines.length - 1)
    THEN ret.kind = "record" /\ ret.recs = <<RecordLines(call.item)>>
    ELSE ret.kind = "IndexError"

\* The part of C9 the code keeps: every i >= 0.
GetFromZeroOn == call.item >= 0 => C9_GetOutsideRaises

\* C10: for every count >= 0 and every pair of bounds, slice(lo, hi) returns
\* [get(i) for i in range(lo', hi')] with lo', hi' normalised as array slicing
\* does; empty whenever lo' >= hi', lo >= count and count = 0 included; it never
\* raises.
C10_SliceAsArraySlice ==
  (call.op = "slice" /\ lines.length >= 0) =>
    LET n == lines.length
        lo == ArrayBound(call.start, n, 0)
        hi == ArrayBound(call.stop, n, n)
        ix == Range(lo, hi)
    IN  /\ ret.kind = "list"
        /\ ret.recs = [k \in 1..Len(ix) |-> RecordLines(ix[k])]

\* The part of C10 the code keeps: a lower bound below the record count.
SliceBelowCount ==
  (lines.length > 0 /\ (call.start = <<>> \/ call.start[1] < lines.length))
    => C10_SliceAsArraySlice

\* C11: for a file of L physical lines, terminated at its end or not, opened
\* with skip s and group g, the record count is floor((L - s) / g), whichever
\* way the lines were counted.
C11_CountIsFloor == lines.length = (file.phys - lines.skip) \div lines.group

\* The part of C11 the code keeps: a scanned file, or one that ends in a
\* terminator.
CountIsFloorWhenTerminated == (win32 \/ file.lastEol \/ file.phys = 0) => C11_CountIsFloor

\* C18: the record count is never negative: for every line count L >= 0, every
\* skip >= 0 and every group >= 1, skip > L included, count >= 0.
C18_CountNonNegative == lines.length >= 0

\* The part of C18 the code keeps: a skip within the counted lines.
CountNonNegativeWithinFile == lines.skip <= Linecount(file, win32) => C18_CountNonNegative

\* The sequence of field f in record r as the file gives it, and the longest
\* such sequence of the batch.
Original(r, f) == recs[r][f + 1]
Longest(f) ==
  CHOOSE w \in {Len(Original(r, f)) : r \in 1..Len(recs)} :
    \A r \in 1..Len(recs) : Len(Original(r, f)) <= w
Assembled == batch # <<>>
Asked == asked # <<>>

\* C12: for every assembled Batch and every field f asked for, Batch.get
\* returns floor(maxLen_f / seqLen) windows, maxLen_f the padded width of f's
\* own matrix; every window is seqLen columns wide, and window k holds columns
\* [k*seqLen, (k+1)*seqLen) of f's matrix, the same columns for every field.
C12_WindowsOfOwnWidth ==
  Asked =>
    \A k \in 1..Len(asked) :
      LET m == batch[stoi(asked[k])]
      IN  /\ Len(wins[k]) = Width(m) \div seq_len
          /\ \A j \in 1..Len(wins[k]) :
               \A r \in 1..Len(m) :
                 /\ Len(wins[k][j][r]) = seq_len
                 /\ \A c \in 1..seq_len : wins[k][j][r][c] = m[r][(j - 1) * seq_len + c]

\* The part of C12 the code keeps: a Batch whose matrices are all as wide as
\* the first.
WindowsWhenEquallyWide ==
  (Assembled /\ \A f \in 1..Len(batch) : Width(batch[f]) = Width(batch[1]))
    => C12_WindowsOfOwnWidth

\* C13: for a non-empty list of records and every field, the assembled matrix
\* has one row per record and the width of the field's longest sequence; cell
\* [r][c] is the original value of record r at column c below the length of
\* that record's sequence and -1 from there on.
C13_RightPaddedToLongest ==
  Assembled =>
    /\ Len(batch) = NumFields
    /\ \A f \in 1..Len(batch) :
         /\ Len(batch[f]) = Len(recs)
         /\ \A r \in 1..Len(recs) :
              /\ Len(batch[f][r]) = Longest(f)
              /\ \A c \in 1..Longest(f) :
                   batch[f][r][c] =
                     IF c <= Len(Original(r, f)) THEN Original(r, f)[c] ELSE 0 - 1

C13_Witness ==
  /\ Assembled /\ Len(recs) = 2
  /\ Original(1, 1) = <<111, 112>> /\ Original(2, 1) = <<121, 122, 123>>
  /\ batch[1] = <<<<111, 112, 0 - 1>>, <<121, 122, 123>>>>

\* C14: all the matrices of an assembled Batch have the same number of rows
\* and the same number of columns, whatever the records, those whose fields
\* differ in length included.
C14_EqualExtents ==
  Assembled =>
    \A f, g \in 1..Len(batch) :
      Len(batch[f]) = Len(batch[g]) /\ Width(batch[f]) = Width(batch[g])

\* The part of C14 the code keeps: the rows always, the columns when the
\* longest sequences of the fields are equally long.
EqualRowsAlways ==
  Assembled =>
    \A f, g \in 1..Len(batch) :
      /\ Len(batch[f]) = Len(batch[g])
      /\ Longest(f) = Longest(g) => Width(batch[f]) = Width(batch[g])

\* The source elements of the item of position q: element q, the q-th bs-sized
\* chunk of the element permutation, or the slice of the q-th batch index.
ItemAt(q) ==
  IF batch_size = NoBatch THEN <<q>>
  ELSE IF full_index # <<>>
       THEN [k \in 1..Min(batch_size, length - q * batch_size) |-> full_index[q * batch_size + k]]
       ELSE SourceSlice(index[q + 1])

\* A run none of whose fetches fails, from whatever position it was given.
FailureFree == ctor = "ok" /\ badElem = 0 - 1

\* C15: with the position set to p while no worker is live, the calls to next
\* that follow deliver the items of positions p, p+1, ..., len-1 in that order,
\* one each, and reach the end exactly after the last; no position below p is
\* fetched or delivered.
C15_ResumeFromPosition ==
  FailureFree =>
    /\ \A k \in 1..Len(delivered) :
         /\ delivered[k].exc = "none"
         /\ delivered[k].pos = startPos + k - 1
         /\ delivered[k].elems = ItemAt(startPos + k - 1)
    /\ \A k \in 1..Len(fetched) : fetched[k] >= startPos
    /\ Len(delivered) <= LogicalLen - startPos
    /\ raises = 0
    /\ Len(delivered) = LogicalLen - startPos <=> pos >= Len(index)
    /\ Finished => Len(delivered) = LogicalLen - startPos

C15_Witness ==
  /\ FailureFree /\ prefetch /\ shuffle /\ batch_size = 1 /\ length = 3
  /\ startPos = 1 /\ Finished
  /\ Len(delivered) = 2 /\ delivered[1].pos = 1 /\ delivered[2].pos = 2

\* C16: in prefetch mode every call to next that has reached its queue.get
\* eventually returns an item, raises a failure or signals the end, calls made
\* after a raised failure included.
C16_NextReturns == (ctor = "ok" /\ prefetch /\ cpc = "get") ~> (cpc = "idle")

\* The part of C16 the code keeps: the calls up to and including the one that
\* raises.
NextReturnsUntilRaise ==
  (ctor = "ok" /\ prefetch /\ cpc = "get" /\ raises = 0) ~> (cpc = "idle")

\* C17: without prefetch no worker is ever started; a call to next runs one
\* production step (one fetch, one put) and takes that same entry, so the queue
\* is empty between calls and never holds more than one entry.
C17_OneStepPerCall ==
  (ctor = "ok" /\ ~prefetch) =>
    /\ thread = "none" /\ ppc = "none" /\ pend = NoEntry
    /\ Len(queue) <= 1
    /\ cpc \in {"idle", "produce"} => queue = <<>>
    /\ cpc = "get" => (Len(queue) = 1 /\ queue[1].pos = pos /\ queue[1].exc = "none")
    /\ pushes = Len(delivered) + (IF cpc = "get" THEN 1 ELSE 0)
    /\ Len(fetched) = pushes + raises
    /\ \A k \in 1..Len(delivered) : delivered[k].pos = startPos + k - 1

C17_Witness ==
  /\ ctor = "ok" /\ ~prefetch /\ batch_size = 2 /\ length = 3
  /\ cpc = "get" /\ pos = 1 /\ Len(delivered) = 1
  /\ queue = <<[pos |-> 1, elems |-> <<2>>, labels |-> 0, exc |-> "none"]>>

\* C19: in a run in which no fetch fails, no failure is ever put on the queue,
\* the number of puts is the number of positions from the starting position to
\* the logical length, and the queue is empty once the end has been signalled;
\* with and without prefetch, with and without a batch size.
C19_NoFailureNoFailurePut ==
  FailureFree =>
    /\ \A k \in 1..Len(queue) : queue[k].exc = "none"
    /\ pend.exc = "none"
    /\ pushes <= LogicalLen - startPos
    /\ Finished => (queue = <<>> /\ pushes = LogicalLen - startPos)

\* The part of C19 the code keeps: every run but the prefetching one without a
\* batch size.
NoFailurePutOutsideFallThrough ==
  (~prefetch \/ batch_size # NoBatch) => C19_NoFailureNoFailurePut

\* The entries of a sequence of queue entries that are items.
DataItems(q) == Cardinality({k \in 1..Len(q) : q[k].exc = "none"})

\* C20: the position is the starting position plus the number of items
\* returned (one up per item, unchanged by a raise or by the end) and never
\* exceeds the logical length; in prefetch mode the position the worker's loop
\* is at (the one it fetches next, or whose entry it is putting) is the
\* position plus the number of items buffered in the queue.
C20_PositionAccounting ==
  ctor = "ok" =>
    /\ pos = startPos + Len(delivered)
    /\ pos <= LogicalLen
    /\ (prefetch /\ ppc \in {"loop", "put", "done"}) =>
         pi = pos + DataItems(queue)

\* The part of C20 the code keeps: the position itself always, the worker's
\* index in every run but the prefetching one without a batch size.
PositionAccountingOutsideFallThrough ==
  /\ ctor = "ok" => (pos = startPos + Len(delivered) /\ pos <= LogicalLen)
  /\ batch_size # NoBatch => C20_PositionAccounting

====
